---- MODULE Spec2Model ----
(***************************************************************************)
(* Model of app.py, the course-analysis dashboard: the two tables read by  *)
(* load_data, the selection resolver, the single-course view, the          *)
(* comparison chart and summary, and the comparison list kept in           *)
(* st.session_state.selected_courses across the runs of a session.         *)
(*                                                                         *)
(* Numbers with decimals are kept as scaled integers: taxa_ocupacao in     *)
(* thousandths, the grades in hundredths; their formatted values are whole *)
(* percents and tenths.                                                    *)
(***************************************************************************)
EXTENDS Integers, Sequences, FiniteSets, TLC

VARIABLES
    df,             \* the historical table (cleaned_data.csv), a sequence of rows
    predictions,    \* the prediction table (predictions_2025.csv)
    session_state,  \* st.session_state: has_selected ('selected_courses' in it), selected_courses
    tab1,           \* the values of the tab1 selectboxes (university_tab1, faculty_tab1, course_tab1)
    widgets,        \* the values of the tab2 selectboxes (university_tab2, faculty_tab2, course_tab2)
    pc,             \* "start": no run yet; "idle": a run ended, waiting for the user; "rerun": st.rerun() was raised
    view,           \* what the last run of the script put on the page
    last,           \* history: the last interaction and the list before it
    first_added,    \* history: the identifiers in the order of their (latest) addition
    call,           \* the builder call under analysis: its name, arguments and result
    files           \* which of the two csv files exist in the working directory

vars == <<df, predictions, session_state, tab1, widgets, pc, view, last, first_added, call, files>>

----------------------------------------------------------------------------
(* Bounds *)

MaxRows == 3        \* rows of the historical table
MaxSelected == 3    \* courses passed to a comparison builder
MaxYears == 2       \* years passed to the comparison summary
MaxPalette == 6     \* courses drawn in the palette analysis

----------------------------------------------------------------------------
(* Sequences and numbers as pandas / Python treat them *)

Range(s) == {s[i] : i \in 1..Len(s)}

Contains(s, e) == \E i \in 1..Len(s) : s[i] = e

NoRepeat(s) == \A i, j \in 1..Len(s) : s[i] = s[j] => i = j

\* all sequences over S of length at most n without a repeated element
SeqsDistinct(S, n) ==
    {s \in UNION {[1..k -> S] : k \in 0..n} : NoRepeat(s)}

\* Series.unique() and list(dict.fromkeys(l)): first occurrences, in order
RECURSIVE Unique(_)
Unique(s) ==
    IF s = <<>> THEN <<>>
    ELSE LET front == Unique(SubSeq(s, 1, Len(s) - 1))
             e == s[Len(s)]
         IN IF Contains(front, e) THEN front ELSE Append(front, e)

ListRemove_last(s, e) == SubSeq(s, 1, Len(s) - 1)

\* list.remove(e): deletes the first element equal to e
ListRemove(s, e) ==
    IF ~Contains(s, e) THEN s
    ELSE LET i == CHOOSE k \in 1..Len(s) : s[k] = e /\ \A j \in 1..(k - 1) : s[j] # e
         IN SubSeq(s, 1, i - 1) \o SubSeq(s, i + 1, Len(s))

\* round(x) of n / d, halves to the even neighbour (numpy's rint)
RoundHalfEven(n, d) ==
    LET q == n \div d
        r == n % d
    IN IF 2 * r < d THEN q
       ELSE IF 2 * r > d THEN q + 1
       ELSE IF q % 2 = 0 THEN q ELSE q + 1

\* insertion of the <<key, element>> pairs by ascending key, equal keys keep their order
RECURSIVE SortPairs(_)
SortPairs(s) ==
    IF s = <<>> THEN <<>>
    ELSE LET front == SortPairs(SubSeq(s, 1, Len(s) - 1))
             e == s[Len(s)]
             n == Cardinality({i \in 1..Len(front) : front[i][1] <= e[1]})
         IN SubSeq(front, 1, n) \o <<e>> \o SubSeq(front, n + 1, Len(front))

\* sort_values(key) / sorted(): ascending by Key
SortBy(s, Key(_)) ==
    LET sorted == SortPairs([i \in 1..Len(s) |-> <<Key(s[i]), s[i]>>])
    IN [i \in 1..Len(s) |-> sorted[i][2]]

Reverse(s) == [i \in 1..Len(s) |-> s[Len(s) + 1 - i]]

\* the maximum of a non-empty set of integers (Series.max())
Max(S) == CHOOSE m \in S : \A x \in S : x <= m

\* the minimum of a non-empty set of integers (Series.min())
Min(S) == CHOOSE m \in S : \A x \in S : m <= x

----------------------------------------------------------------------------
(* The tables *)

NaN == "NaN"            \* a missing cell
None == "None"          \* Python's None

ForecastYear == 2025

Lisboa == "Universidade de Lisboa"
ISEG == "Instituto Superior de Economia e Gestão"

\* the courses of the tables: curso, nome_universidade, nome_faculdade and a number
\* the generated cell values are derived from
Catalog ==
    [C1 |-> [curso |-> "Economia", nome_universidade |-> Lisboa, nome_faculdade |-> ISEG, n |-> 1],
     C2 |-> [curso |-> "Gestão", nome_universidade |-> Lisboa, nome_faculdade |-> ISEG, n |-> 2],
     C3 |-> [curso |-> "Economia", nome_universidade |-> "Universidade do Porto",
             nome_faculdade |-> "Faculdade de Economia", n |-> 3],
     C4 |-> [curso |-> "Medicina", nome_universidade |-> "Universidade Nova",
             nome_faculdade |-> NaN, n |-> 4],
     C5 |-> [curso |-> "Finanças", nome_universidade |-> Lisboa, nome_faculdade |-> ISEG, n |-> 5],
     C6 |-> [curso |-> "Direito", nome_universidade |-> "Universidade do Porto",
             nome_faculdade |-> "Faculdade de Direito", n |-> 6]]

\* Python's order of the strings of the tables (str.__lt__), ascending
LexOrder ==
    <<"Direito", "Economia", "Faculdade de Direito", "Faculdade de Economia", "Finanças",
      "Gestão", ISEG, "Medicina", "Universidade Nova", Lisboa, "Universidade do Porto">>

Rank(s) == CHOOSE i \in 1..Len(LexOrder) : LexOrder[i] = s

\* one row of cleaned_data.csv for course c and year y
HistRow(c, y) ==
    LET k == Catalog[c]
        vagas == 20 * k.n
        col == 10 * k.n + (y - 2020)
    IN [course_id |-> c, curso |-> k.curso,
        nome_universidade |-> k.nome_universidade, nome_faculdade |-> k.nome_faculdade,
        ano |-> y, vagas_iniciais |-> vagas, colocados |-> col,
        taxa_ocupacao |-> (col * 1000) \div vagas,
        nota_ultimo_colocado |-> 1200 + 110 * k.n + 15 * (y - 2020),
        vagas_sobrantes |-> vagas - col]

\* one row of predictions_2025.csv for course c
PredRow(c) ==
    [course_id |-> c, colocados_previsto |-> 10 * Catalog[c].n + 6,
     nota_ultimo_colocado_prevista |-> 1400 + 10 * Catalog[c].n + 5]

\* the historical tables over the given courses and years: at most n rows in any
\* order, one row at most per course and year
TablesOver(courses, years, n) ==
    {[i \in 1..Len(keys) |-> HistRow(keys[i][1], keys[i][2])] :
        keys \in SeqsDistinct(courses \X years, n)}

\* the prediction tables over the given courses: one row at most per course
PredTablesOver(order) ==
    {SelectSeq([i \in 1..Len(order) |-> PredRow(order[i])], LAMBDA r : r.course_id \in S) :
        S \in SUBSET Range(order)}

\* df[mask]: the rows satisfying Test, in table order
Rows(t, Test(_)) == SelectSeq(t, Test)

Column(t, Field(_)) == [i \in 1..Len(t) |-> Field(t[i])]

CourseRows(t, c) == Rows(t, LAMBDA r : r.course_id = c)

\* predictions[predictions['course_id'] == course]
CoursePred(p, c) == Rows(p, LAMBDA r : r.course_id = c)

----------------------------------------------------------------------------
(* create_course_selection_ui: university -> faculty -> course *)

NotNull(s) == SelectSeq(s, LAMBDA e : e # NaN)

\* sorted(names, reverse=True)
SortedDesc(names) == Reverse(SortBy(names, Rank))

Universities(t) ==
    SortedDesc(Unique(NotNull(Column(t, LAMBDA r : r.nome_universidade))))

Faculties(t, university) ==
    SortedDesc(Unique(NotNull(Column(Rows(t, LAMBDA r : r.nome_universidade = university),
                                     LAMBDA r : r.nome_faculdade))))

\* st.selectbox(options, index=options.index(preferred) if preferred in options else 0)
DefaultOption(options, preferred) ==
    IF options = <<>> THEN None
    ELSE IF Contains(options, preferred) THEN preferred
    ELSE options[1]

\* drop_duplicates(subset=['course_id']): the first row of every course_id
DropDuplicates(t) ==
    SelectSeq([i \in 1..Len(t) |-> [row |-> t[i], first |-> \A j \in 1..(i - 1) : t[j].course_id # t[i].course_id]],
              LAMBDA e : e.first)

CourseOptions_anyFaculty(t, university, faculty) ==
    LET courses == Rows(t, LAMBDA r : r.nome_universidade = university)
        courses_unique == SortBy(Column(DropDuplicates(courses), LAMBDA e : e.row), LAMBDA r : Rank(r.curso))
    IN Column(courses_unique, LAMBDA r : r.course_id)

\* the keys of course_options, in the order the selectbox lists them
CourseOptions(t, university, faculty) ==
    LET courses == Rows(t, LAMBDA r : r.nome_universidade = university /\ r.nome_faculdade = faculty)
        courses_unique == SortBy(Column(DropDuplicates(courses), LAMBDA e : e.row), LAMBDA r : Rank(r.curso))
    IN Column(courses_unique, LAMBDA r : r.course_id)

\* format_func: the values of course_options, the names the selectbox shows for the keys
CourseLabels(t, university, faculty) ==
    LET courses == Rows(t, LAMBDA r : r.nome_universidade = university /\ r.nome_faculdade = faculty)
        courses_unique == SortBy(Column(DropDuplicates(courses), LAMBDA e : e.row), LAMBDA r : Rank(r.curso))
    IN Column(courses_unique, LAMBDA r : r.curso)

\* the selectbox values of a first run
DefaultWidgets(t) ==
    LET u == DefaultOption(Universities(t), Lisboa)
        f == DefaultOption(Faculties(t, u), ISEG)
        opts == CourseOptions(t, u, f)
    IN [university |-> u, faculty |-> f, course |-> IF opts = <<>> THEN None ELSE opts[1]]

\* the values the three selectboxes can hold after the user has used them
WidgetChoices(t) ==
    LET OrNone(options) == IF options = <<>> THEN {None} ELSE Range(options)
    IN UNION {UNION {{[university |-> u, faculty |-> f, course |-> c] :
                        c \in OrNone(CourseOptions(t, u, f))} :
                     f \in OrNone(Faculties(t, u))} :
              u \in OrNone(Universities(t))}

----------------------------------------------------------------------------
(* create_course_evolution_view: the single-course view *)

RECURSIVE SumSeq(_)
SumSeq(s) == IF s = <<>> THEN 0 ELSE s[1] + SumSeq(Tail(s))

\* a whole percentage as text: f"{x:.0f}%" and round(0).astype(int).astype(str) + '%'
Percent(thousandths_sum, count) == ToString(RoundHalfEven(thousandths_sum, 10 * count)) \o "%"

\* a grade to one decimal (tenths): f"{x:.1f}" and round(1)
OneDecimal(hundredths_sum, count) == RoundHalfEven(hundredths_sum, 10 * count)

InYearRange_exclusive(r, selected_course, year_range) ==
    r.course_id = selected_course /\ r.ano >= year_range[1] /\ r.ano < year_range[2]

\* the row mask of the view: the course, and the year within the inclusive range
InYearRange(r, selected_course, year_range) ==
    r.course_id = selected_course /\ r.ano >= year_range[1] /\ r.ano <= year_range[2]

create_metric_columns_firstRow(course_data, preds, selected_course) ==
    LET most_recent_year == course_data[1]
        course_predictions == CoursePred(preds, selected_course)
    IN [avg_occupancy |-> Percent(SumSeq(Column(course_data, LAMBDA r : r.taxa_ocupacao)), Len(course_data)),
        avg_grade |-> OneDecimal(SumSeq(Column(course_data, LAMBDA r : r.nota_ultimo_colocado)), Len(course_data)),
        last_year |-> most_recent_year.ano,
        last_grade |-> OneDecimal(most_recent_year.nota_ultimo_colocado, 1),
        last_placed |-> most_recent_year.colocados,
        forecast |-> IF course_predictions # <<>>
                     THEN <<[grade |-> OneDecimal(course_predictions[1].nota_ultimo_colocado_prevista, 1),
                             placed |-> course_predictions[1].colocados_previsto]>>
                     ELSE <<>>]

\* the six metrics; the two forecast metrics are left empty without a prediction row
create_metric_columns(course_data, preds, selected_course) ==
    LET most_recent_year == course_data[Len(course_data)]
        course_predictions == CoursePred(preds, selected_course)
    IN [avg_occupancy |-> Percent(SumSeq(Column(course_data, LAMBDA r : r.taxa_ocupacao)), Len(course_data)),
        avg_grade |-> OneDecimal(SumSeq(Column(course_data, LAMBDA r : r.nota_ultimo_colocado)), Len(course_data)),
        last_year |-> most_recent_year.ano,
        last_grade |-> OneDecimal(most_recent_year.nota_ultimo_colocado, 1),
        last_placed |-> most_recent_year.colocados,
        forecast |-> IF course_predictions # <<>>
                     THEN <<[grade |-> OneDecimal(course_predictions[1].nota_ultimo_colocado_prevista, 1),
                             placed |-> course_predictions[1].colocados_previsto]>>
                     ELSE <<>>]

\* the two line charts: (ano, colocados) and (ano, nota_ultimo_colocado)
create_evolution_charts(course_data) ==
    <<Column(course_data, LAMBDA r : <<r.ano, r.colocados>>),
      Column(course_data, LAMBDA r : <<r.ano, r.nota_ultimo_colocado>>)>>

create_detailed_table(course_data) ==
    Column(course_data, LAMBDA r :
        [Ano |-> r.ano, VagasIniciais |-> r.vagas_iniciais, AlunosColocados |-> r.colocados,
         TaxaDeOcupacao |-> Percent(r.taxa_ocupacao, 1),
         NotaDoUltimoColocado |-> OneDecimal(r.nota_ultimo_colocado, 1),
         VagasRestantes |-> r.vagas_sobrantes])

create_course_evolution_view(t, preds, selected_course, year_range) ==
    LET course_data == SortBy(Rows(t, LAMBDA r : InYearRange(r, selected_course, year_range)),
                              LAMBDA r : r.ano)
    IN IF course_data = <<>>
       THEN [warning |-> TRUE, course_data |-> <<>>, metrics |-> <<>>, charts |-> <<>>, table |-> <<>>]
       ELSE [warning |-> FALSE, course_data |-> course_data,
             metrics |-> <<create_metric_columns(course_data, preds, selected_course)>>,
             charts |-> create_evolution_charts(course_data),
             table |-> create_detailed_table(course_data)]

----------------------------------------------------------------------------
(* create_course_comparison_ui and main: one run of the script *)

DefaultCourses_fixed(t) == <<"C1", "C2">>

\* the default courses of a new session
DefaultCourses(t) ==
    Unique(Column(Rows(t, LAMBDA r : /\ r.nome_universidade = Lisboa
                                      /\ r.nome_faculdade = ISEG
                                      /\ r.curso \in {"Economia", "Gestão"}),
                  LAMBDA r : r.course_id))

NeedsInit_whenEmpty(r) == ~r.has_selected \/ r.selected_courses = <<>>

\* 'selected_courses' not in st.session_state
NeedsInit(r) == ~r.has_selected

InitializeDefaults(t, r) ==
    IF NeedsInit(r)
    THEN [r EXCEPT !.has_selected = TRUE, !.selected_courses = DefaultCourses(t)]
    ELSE r

AddOffered_always(l, selected_course) == selected_course # None

\* selected_course and selected_course not in st.session_state.selected_courses
AddOffered(l, selected_course) ==
    selected_course # None /\ ~Contains(l, selected_course)

AppendCourse_front(l, selected_course) == <<selected_course>> \o l

\* st.session_state.selected_courses.append(selected_course)
AppendCourse(l, selected_course) == Append(l, selected_course)

AddCourse(r, selected_course, click) ==
    IF AddOffered(r.selected_courses, selected_course)
    THEN IF click.button = "add"
         THEN [r EXCEPT !.add_offered = TRUE,
                        !.selected_courses = AppendCourse(@, selected_course),
                        !.rerun = TRUE]
         ELSE [r EXCEPT !.add_offered = TRUE]
    ELSE r

\* the remove button of row i: the rows up to i are written, then the entry is removed
RemoveCourse(r, l, i) ==
    [r EXCEPT !.shown = SubSeq(l, 1, i),
              !.selected_courses = ListRemove(l, l[i]),
              !.rerun = TRUE]

ClearCourses_noRerun(r, l) ==
    [r EXCEPT !.shown = l, !.selected_courses = <<>>]

\* "Limpar Todos os Cursos": the list is emptied and st.rerun() raised
ClearCourses(r, l) ==
    [r EXCEPT !.shown = l, !.selected_courses = <<>>, !.rerun = TRUE]

ManageSelected(r, click) ==
    IF r.rerun \/ r.selected_courses = <<>> THEN r
    ELSE LET l == Unique(r.selected_courses)
         IN IF click.button = "remove" /\ click.i \in 1..Len(l) THEN RemoveCourse(r, l, click.i)
            ELSE IF click.button = "clear" THEN ClearCourses(r, l)
            ELSE [r EXCEPT !.shown = l, !.selected_courses = l]

\* main, tab2: the comparison view when the list is not empty, the prompt otherwise
ComparisonTab(r) ==
    IF r.rerun THEN r
    ELSE IF r.selected_courses # <<>>
         THEN [r EXCEPT !.comparison = "view", !.compared = r.selected_courses]
         ELSE [r EXCEPT !.comparison = "info"]

NoClick == [button |-> "none", i |-> 0]

\* a run of the script from session state ss with the selectbox values w and the
\* button click that started it
RunScript(t, ss, w, click) ==
    LET r0 == [has_selected |-> ss.has_selected, selected_courses |-> ss.selected_courses,
               shown |-> <<>>, add_offered |-> FALSE, comparison |-> "none",
               compared |-> <<>>, rerun |-> FALSE]
    IN ComparisonTab(ManageSelected(AddCourse(InitializeDefaults(t, r0), w.course, click), click))

AllFiles == [cleaned_data |-> TRUE, predictions_2025 |-> TRUE]

load_data_firstFileOnly(f, t, p) ==
    IF f.cleaned_data
    THEN [none |-> FALSE, error |-> FALSE, df |-> t, predictions |-> p]
    ELSE [none |-> TRUE, error |-> TRUE, df |-> <<>>, predictions |-> <<>>]

\* the two tables when both files exist; (None, None) after st.error when
\* pd.read_csv raises FileNotFoundError for either
load_data(f, t, p) ==
    IF f.cleaned_data /\ f.predictions_2025
    THEN [none |-> FALSE, error |-> FALSE, df |-> t, predictions |-> p]
    ELSE [none |-> TRUE, error |-> TRUE, df |-> <<>>, predictions |-> <<>>]

NoEvolution == [built |-> FALSE, selected_course |-> None, year_range |-> <<0, 0>>]

\* main, tab1: if selected_course, create_course_evolution_view is called for it
\* with year_range = (df['ano'].min(), df['ano'].max())
EvolutionTab(t, selected_course) ==
    IF selected_course = None THEN NoEvolution
    ELSE [built |-> TRUE, selected_course |-> selected_course,
          year_range |-> <<Min(Range(Column(t, LAMBDA r : r.ano))),
                           Max(Range(Column(t, LAMBDA r : r.ano)))>>]

\* main: the script stops after a failed load; otherwise tab1, with the selectbox
\* values w1, and then tab2, with the selectbox values w
main(f, t, p, ss, w1, w, click) ==
    LET loaded == load_data(f, t, p)
    IN IF loaded.none
       THEN [has_selected |-> ss.has_selected, selected_courses |-> ss.selected_courses,
             shown |-> <<>>, add_offered |-> FALSE, comparison |-> "none",
             compared |-> <<>>, rerun |-> FALSE,
             error |-> loaded.error, resolved |-> FALSE, evolution |-> NoEvolution]
       ELSE RunScript(loaded.df, ss, w, click)
            @@ [error |-> loaded.error, resolved |-> TRUE,
                evolution |-> EvolutionTab(loaded.df, w1.course)]

----------------------------------------------------------------------------
(* A session *)

SessionCourses == {"C1", "C2", "C3"}
SessionYears == {2023, 2024}

NoCall == [fn |-> "none"]
NoView ==
    [shown |-> <<>>, add_offered |-> FALSE, comparison |-> "none", compared |-> <<>>,
     error |-> FALSE, resolved |-> FALSE, evolution |-> NoEvolution]

\* the page of a run
Page(r) ==
    [shown |-> r.shown, add_offered |-> r.add_offered, comparison |-> r.comparison,
     compared |-> r.compared, error |-> r.error, resolved |-> r.resolved,
     evolution |-> r.evolution]

selected_courses == session_state.selected_courses

\* a session over any table within the bounds, with the files as given by f
SessionInit(f) ==
    /\ files = f
    /\ df \in TablesOver(SessionCourses, SessionYears, MaxRows)
    /\ predictions = [i \in 1..2 |-> PredRow(<<"C1", "C3">>[i])]
    /\ session_state = [has_selected |-> FALSE, selected_courses |-> <<>>]
    /\ tab1 = DefaultWidgets(df)
    /\ widgets = DefaultWidgets(df)
    /\ pc = "start"
    /\ view = NoView
    /\ last = [op |-> "none", arg |-> None, i |-> 0, before |-> <<>>]
    /\ first_added = <<>>
    /\ call = NoCall

\* a session in a directory that holds both files
Init == SessionInit(AllFiles)

\* the effect of a run on the session: the session state, the page, and whether
\* the script raised st.rerun()
Run(w, click, op) ==
    \E r \in {main(files, df, predictions, session_state, tab1, w, click)} :
       /\ session_state' = [has_selected |-> r.has_selected, selected_courses |-> r.selected_courses]
       /\ view' = Page(r)
       /\ pc' = IF r.rerun THEN "rerun" ELSE "idle"
       /\ widgets' = w
       /\ last' = [op |-> op, arg |-> IF op = "add" THEN w.course ELSE None,
                   i |-> click.i, before |-> session_state.selected_courses]
       /\ UNCHANGED <<df, predictions, call, files, tab1>>

\* the first run of a session
FirstRun ==
    /\ pc = "start"
    /\ Run(widgets, NoClick, "init")
    /\ first_added' = session_state'.selected_courses

\* the user changes a selectbox of tab2: the script runs with the new values
SelectWidgets(w) ==
    /\ pc = "idle"
    /\ view.resolved
    /\ w # widgets
    /\ Run(w, NoClick, "select")
    /\ UNCHANGED first_added

\* the user clicks "Adicionar Curso à Comparação"
ClickAdd ==
    /\ pc = "idle"
    /\ view.add_offered
    /\ Len(selected_courses) < MaxSelected
    /\ Run(widgets, [button |-> "add", i |-> 0], "add")
    /\ first_added' = Append(SelectSeq(first_added, LAMBDA c : c # widgets.course), widgets.course)

\* the user clicks the remove button of row i
ClickRemove(i) ==
    /\ pc = "idle"
    /\ i \in 1..Len(view.shown)
    /\ Run(widgets, [button |-> "remove", i |-> i], "remove")
    /\ UNCHANGED first_added

\* the user clicks "Limpar Todos os Cursos"
ClickClear ==
    /\ pc = "idle"
    /\ view.shown # <<>>
    /\ Run(widgets, [button |-> "clear", i |-> 0], "clear")
    /\ UNCHANGED first_added

\* the run started by st.rerun(); last keeps the interaction that raised it
Rerun ==
    /\ pc = "rerun"
    /\ \E r \in {main(files, df, predictions, session_state, tab1, widgets, NoClick)} :
          /\ session_state' = [has_selected |-> r.has_selected, selected_courses |-> r.selected_courses]
          /\ view' = Page(r)
          /\ pc' = IF r.rerun THEN "rerun" ELSE "idle"
    /\ UNCHANGED <<df, predictions, call, tab1, widgets, last, first_added, files>>

\* the user has the script run again without touching a widget
Refresh ==
    /\ pc = "idle"
    /\ Run(widgets, NoClick, "refresh")
    /\ UNCHANGED first_added

Next ==
    \/ FirstRun
    \/ \E w \in WidgetChoices(df) : SelectWidgets(w)
    \/ ClickAdd
    \/ \E i \in 1..MaxSelected : ClickRemove(i)
    \/ ClickClear
    \/ Rerun
    \/ Refresh

Spec == Init /\ [][Next]_vars

\* a session in a directory where any of the two files may be missing
LoadInit == \E f \in [cleaned_data : BOOLEAN, predictions_2025 : BOOLEAN] : SessionInit(f)

LoadSpec == LoadInit /\ [][Next]_vars

----------------------------------------------------------------------------
(* create_comparison_chart *)

\* px.colors.qualitative.Set1
Set1 ==
    <<"rgb(228,26,28)", "rgb(55,126,184)", "rgb(77,175,74)", "rgb(152,78,163)", "rgb(255,127,0)",
      "rgb(255,255,51)", "rgb(166,86,40)", "rgb(247,129,191)", "rgb(153,153,153)">>

\* the prediction column of a charted column
prediction_column ==
    [colocados |-> "colocados_previsto", nota_ultimo_colocado |-> "nota_ultimo_colocado_prevista"]

\* df[df['course_id'].isin(selected_courses)]
IsIn(t, selected) == Rows(t, LAMBDA r : Contains(selected, r.course_id))

LastValue_lastRow(course_data, last_year, y_column) ==
    course_data[Len(course_data)][y_column]

\* course_data[course_data['ano'] == last_year][y_column].iloc[0]
LastValue(course_data, last_year, y_column) ==
    Rows(course_data, LAMBDA r : r.ano = last_year)[1][y_column]

\* the colour of the next course: Set1[len(fig.data) % len(Set1)]
LineColor(data) == Set1[(Len(data) % Len(Set1)) + 1]

\* the traces one course adds to the figure that holds the traces data
CourseTraces(historical_data, preds, course, y_column, data) ==
    LET course_data == CourseRows(historical_data, course)
        course_name == course_data[1].curso
        last_year == Max(Range(Column(course_data, LAMBDA r : r.ano)))
        last_value == LastValue(course_data, last_year, y_column)
        line_color == LineColor(data)
        course_pred == CoursePred(preds, course)
        line == [kind |-> "historical", course |-> course, name |-> course_name,
                 x |-> Column(course_data, LAMBDA r : r.ano),
                 y |-> Column(course_data, LAMBDA r : r[y_column]),
                 color |-> line_color, dash |-> "solid"]
    IN IF course_pred # <<>>
       THEN <<line,
              [kind |-> "forecast", course |-> course, name |-> course_name \o " (Previsão)",
               x |-> <<last_year, ForecastYear>>,
               y |-> <<last_value, course_pred[1][prediction_column[y_column]]>>,
               color |-> line_color, dash |-> "dot"]>>
       ELSE <<line>>

\* fig.data after the loop over selected_courses
RECURSIVE create_comparison_chart(_, _, _, _)
create_comparison_chart(historical_data, preds, selected, y_column) ==
    IF selected = <<>> THEN <<>>
    ELSE LET data == create_comparison_chart(historical_data, preds,
                                             SubSeq(selected, 1, Len(selected) - 1), y_column)
         IN data \o CourseTraces(historical_data, preds, selected[Len(selected)], y_column, data)

----------------------------------------------------------------------------
(* create_comparison_summary *)

Placeholder == "Previsão"

NumberCell(n) == [kind |-> "number", number |-> n, text |-> ""]
TextCell(s) == [kind |-> "text", number |-> 0, text |-> s]

UsesPredictions_whenNoHistory(selected_year, year_data) ==
    selected_year = ForecastYear /\ year_data = <<>>

\* selected_year == 2025
UsesPredictions(selected_year, year_data) == selected_year = ForecastYear

YearsProcessed_sorted(selected_years) == SortBy(selected_years, LAMBDA y : y)

\* for selected_year in selected_years
YearsProcessed(selected_years) == selected_years

\* the forecast rows: one for every selected course that has a prediction
RECURSIVE ForecastSummary(_, _, _)
ForecastSummary(t, preds, selected) ==
    IF selected = <<>> THEN <<>>
    ELSE LET course == selected[Len(selected)]
             front == ForecastSummary(t, preds, SubSeq(selected, 1, Len(selected) - 1))
             course_pred == CoursePred(preds, course)
         IN IF course_pred # <<>>
            THEN Append(front,
                        [Curso |-> CourseRows(t, course)[1].curso, Ano |-> ForecastYear,
                         Ocupacao |-> Placeholder,
                         NotaMinima |-> OneDecimal(course_pred[1].nota_ultimo_colocado_prevista, 1),
                         VagasRestantes |-> TextCell(Placeholder)])
            ELSE front

\* the rows of a historical year, formatted
HistoricalSummary(year_data) ==
    Column(year_data, LAMBDA r :
        [Curso |-> r.curso, Ano |-> r.ano, Ocupacao |-> Percent(r.taxa_ocupacao, 1),
         NotaMinima |-> OneDecimal(r.nota_ultimo_colocado, 1),
         VagasRestantes |-> NumberCell(r.vagas_sobrantes)])

YearSummary(t, preds, selected, selected_year) ==
    LET year_data == Rows(t, LAMBDA r : Contains(selected, r.course_id) /\ r.ano = selected_year)
    IN IF UsesPredictions(selected_year, year_data)
       THEN ForecastSummary(t, preds, selected)
       ELSE HistoricalSummary(year_data)

RECURSIVE ConcatSummaries(_, _, _, _)
ConcatSummaries(t, preds, selected, years) ==
    IF years = <<>> THEN <<>>
    ELSE YearSummary(t, preds, selected, years[1]) \o ConcatSummaries(t, preds, selected, Tail(years))

\* pd.concat(summary_dataframes, ignore_index=True)
create_comparison_summary(t, preds, selected, selected_years) ==
    ConcatSummaries(t, preds, selected, YearsProcessed(selected_years))

----------------------------------------------------------------------------
(* The builders on every table within the bounds *)

BuilderCourses == <<"C1", "C2">>
BuilderYears == {2023, 2024, ForecastYear}
Columns == {"colocados", "nota_ultimo_colocado"}

\* the courses that have a row in the table
CoursesOf(t) == {t[i].course_id : i \in 1..Len(t)}

\* five years of one course: colocados 10, 12, 11, 13, 14 of 20 places, that is
\* taxa_ocupacao .5, .6, .55, .65, .7
FiveYears ==
    LET colocados == <<10, 12, 11, 13, 14>>
    IN [i \in 1..5 |-> [HistRow("C1", 2019 + i) EXCEPT !.colocados = colocados[i],
                                                        !.taxa_ocupacao = (colocados[i] * 1000) \div 20,
                                                        !.vagas_sobrantes = 20 - colocados[i]]]

\* its prediction row: 15 placed, last grade 14.2
FiveYearsPrediction ==
    <<[course_id |-> "C1", colocados_previsto |-> 15, nota_ultimo_colocado_prevista |-> 1420]>>

\* the ends of the year ranges asked of the single-course view
RangeYears == BuilderYears \cup {2020}

BuilderInit ==
    /\ df \in TablesOver(Range(BuilderCourses), BuilderYears, MaxRows) \cup {FiveYears}
    /\ predictions \in PredTablesOver(BuilderCourses) \cup {FiveYearsPrediction}
    /\ files = AllFiles
    /\ tab1 = DefaultWidgets(df)
    /\ session_state = [has_selected |-> FALSE, selected_courses |-> <<>>]
    /\ widgets = DefaultWidgets(df)
    /\ pc = "builders"
    /\ view = NoView
    /\ last = [op |-> "none", arg |-> None, i |-> 0, before |-> <<>>]
    /\ first_added = <<>>
    /\ call = NoCall

BuilderFrame ==
    UNCHANGED <<df, predictions, session_state, tab1, widgets, pc, view, last, first_added, files>>

\* the single-course view of a course over a year range
EvolutionView(c, lo, hi) ==
    /\ call = NoCall
    /\ call' = [fn |-> "evolution", selected_course |-> c, year_range |-> <<lo, hi>>,
                result |-> create_course_evolution_view(df, predictions, c, <<lo, hi>>)]
    /\ BuilderFrame

\* a comparison chart of selected courses, all of which have rows
ComparisonChart(selected, y) ==
    /\ call = NoCall
    /\ selected # <<>>
    /\ call' = [fn |-> "chart", selected_courses |-> selected, y_column |-> y,
                data |-> create_comparison_chart(IsIn(df, selected), predictions, selected, y)]
    /\ BuilderFrame

\* the comparison summary of selected courses for a list of years
ComparisonSummary(selected, years) ==
    /\ call = NoCall
    /\ selected # <<>>
    /\ years # <<>>
    /\ call' = [fn |-> "summary", selected_courses |-> selected, selected_years |-> years,
                rows |-> create_comparison_summary(df, predictions, selected, years)]
    /\ BuilderFrame

\* one builder is called once on the tables of the initial state
BuilderNext ==
    \/ /\ call = NoCall
       /\ \E c \in Range(BuilderCourses), lo, hi \in RangeYears : EvolutionView(c, lo, hi)
    \/ /\ call = NoCall
       /\ \E selected \in SeqsDistinct(CoursesOf(df), MaxSelected), y \in Columns :
             ComparisonChart(selected, y)
    \/ /\ call = NoCall
       /\ \E selected \in SeqsDistinct(CoursesOf(df), MaxSelected),
             years \in SeqsDistinct(BuilderYears, MaxYears) :
             ComparisonSummary(selected, years)

BuilderSpec == BuilderInit /\ [][BuilderNext]_vars

----------------------------------------------------------------------------
(* The comparison chart of up to MaxPalette courses, one row each *)

PaletteCourses == <<"C1", "C2", "C3", "C4", "C5", "C6">>

PaletteInit ==
    /\ df = [i \in 1..Len(PaletteCourses) |-> HistRow(PaletteCourses[i], 2024)]
    /\ predictions \in PredTablesOver(PaletteCourses)
    /\ files = AllFiles
    /\ tab1 = DefaultWidgets(df)
    /\ session_state = [has_selected |-> FALSE, selected_courses |-> <<>>]
    /\ widgets = DefaultWidgets(df)
    /\ pc = "builders"
    /\ view = NoView
    /\ last = [op |-> "none", arg |-> None, i |-> 0, before |-> <<>>]
    /\ first_added = <<>>
    /\ call = NoCall

PaletteNext ==
    /\ call = NoCall
    /\ \E selected \in SeqsDistinct(CoursesOf(df), MaxPalette) : ComparisonChart(selected, "colocados")

PaletteSpec == PaletteInit /\ [][PaletteNext]_vars

----------------------------------------------------------------------------
(* The selection resolver on tables whose rows differ in name and place *)

ResolverCourses == {"C1", "C2"}
ResolverYears == {2023, 2024}
Names == {"Economia", "Gestão"}

\* nome_universidade and nome_faculdade of a row; the faculty may be missing
Places == {<<Lisboa, ISEG>>, <<Lisboa, NaN>>, <<"Universidade do Porto", ISEG>>}

\* a table in which the rows of one course_id may carry different names,
\* universities and faculties: row i has the course and year keys[i] and the name
\* and place attrs[i]
ResolverTable(keys, attrs) ==
    [i \in 1..Len(keys) |->
        [HistRow(keys[i][1], keys[i][2]) EXCEPT !.curso = attrs[i][1],
                                                !.nome_universidade = attrs[i][2][1],
                                                !.nome_faculdade = attrs[i][2][2]]]

ResolverInit ==
    /\ \E keys \in SeqsDistinct(ResolverCourses \X ResolverYears, MaxRows) :
          \E attrs \in [1..Len(keys) -> Names \X Places] : df = ResolverTable(keys, attrs)
    /\ predictions = <<>>
    /\ files = AllFiles
    /\ tab1 = DefaultWidgets(df)
    /\ session_state = [has_selected |-> FALSE, selected_courses |-> <<>>]
    /\ widgets = DefaultWidgets(df)
    /\ pc = "resolver"
    /\ view = NoView
    /\ last = [op |-> "none", arg |-> None, i |-> 0, before |-> <<>>]
    /\ first_added = <<>>
    /\ call = NoCall

\* a run of a new session in which the selectboxes of both tabs hold the values w:
\* the course options of create_course_selection_ui and the page of the run
Resolve(w) ==
    /\ call = NoCall
    /\ call' = [fn |-> "selection", widgets |-> w,
                options |-> CourseOptions(df, w.university, w.faculty),
                labels |-> CourseLabels(df, w.university, w.faculty),
                page |-> Page(main(files, df, predictions, session_state, w, w, NoClick))]
    /\ BuilderFrame

ResolverNext == \E w \in WidgetChoices(df) : Resolve(w)

ResolverSpec == ResolverInit /\ [][ResolverNext]_vars

----------------------------------------------------------------------------
(* The comparison list *)

Mutations == {"add", "remove", "clear"}

\* C1: once initialised, the comparison list holds no course identifier twice
\* and its entries stand in the order in which they were added.
C1_NoRepeatFirstAddedOrder ==
    session_state.has_selected =>
        /\ NoRepeat(selected_courses)
        /\ selected_courses = SelectSeq(first_added, LAMBDA c : Contains(selected_courses, c))

\* two entries remain, in the order of their addition, after an entry was removed
C1_Witness ==
    /\ pc = "idle"
    /\ Len(selected_courses) = 2
    /\ Len(first_added) = 3
    /\ last.op = "remove"

\* C2: the add button exists only for a selected course that is not in the
\* list, so a course of the list cannot be added again; an add leaves the
\* earlier entries as they were and puts the course at the end (on the empty
\* list it yields the one-entry list).
C2_AddAppendsOnlyWhenAbsent ==
    /\ pc = "idle" =>
          (view.add_offered <=>
              (widgets.course # None /\ ~Contains(selected_courses, widgets.course)))
    /\ last.op = "add" =>
          /\ ~Contains(last.before, last.arg)
          /\ selected_courses = Append(last.before, last.arg)
          /\ last.before = <<>> => (selected_courses = <<last.arg>> /\ Len(selected_courses) = 1)

\* a course was added to the empty list and is now its only entry, with no add offered for it
C2_Witness ==
    /\ pc = "idle"
    /\ last.op = "add"
    /\ last.before = <<>>
    /\ selected_courses = <<widgets.course>>
    /\ ~view.add_offered

\* C3: the remove button of row i removes that row's course and nothing else:
\* the course is gone, the list is one shorter, the others keep their order.
C3_RemoveExactlyOne ==
    last.op = "remove" =>
        LET c == last.before[last.i]
        IN /\ ~Contains(selected_courses, c)
           /\ Len(selected_courses) = Len(last.before) - 1
           /\ selected_courses = SelectSeq(last.before, LAMBDA e : e # c)

\* the middle entry of three was removed
C3_Witness ==
    /\ last.op = "remove"
    /\ Len(last.before) = 3
    /\ last.i = 2
    /\ Len(selected_courses) = 2

\* C4: the defaults are applied only while the list is unset: an initialised
\* list stays initialised, a run without a button click leaves it as it is, and
\* an empty initialised list stays empty until an add.
C4_DefaultsOnlyOnce ==
    [][session_state.has_selected =>
          /\ session_state'.has_selected
          /\ (pc' = "idle" /\ last'.op \notin Mutations) => selected_courses' = selected_courses
          /\ (selected_courses = <<>> /\ selected_courses' # <<>>) => (pc = "idle" /\ last'.op = "add")]_vars

\* a run without a click after the list was cleared, in a session whose defaults are not empty
C4_Witness ==
    /\ pc = "idle"
    /\ session_state.has_selected
    /\ selected_courses = <<>>
    /\ DefaultCourses(df) # <<>>
    /\ last.op = "select"

\* C5: the run in which the list is changed ends at the change with no
\* comparison view built, the next run is the rerun, and a run that ends
\* normally shows the list and the comparison view of the list in the session state.
C5_MutationThenFullRerun ==
    [][/\ pc' = "rerun" => view'.comparison = "none"
       /\ pc' = "idle" =>
             /\ view'.shown = selected_courses'
             /\ IF selected_courses' # <<>>
                THEN view'.comparison = "view" /\ view'.compared = selected_courses'
                ELSE view'.comparison = "info"
       /\ (pc = "idle" /\ last'.op \in Mutations) =>
             (pc' = "rerun" /\ selected_courses' # selected_courses)
       /\ (pc = "idle" /\ selected_courses' # selected_courses) => pc' = "rerun"
       /\ pc = "rerun" => (pc' = "idle" /\ selected_courses' = selected_courses)]_vars

\* the rerun after a removal has built the comparison view from the shortened list
C5_Witness ==
    /\ pc = "idle"
    /\ last.op = "remove"
    /\ view.comparison = "view"
    /\ view.compared = selected_courses
    /\ Len(selected_courses) = Len(last.before) - 1

----------------------------------------------------------------------------
(* The single-course view *)

\* C6: the rows of the single-course view are exactly the rows of the course
\* with the year inside the inclusive range, in ascending order of year; when
\* there is none, the warning is issued and no metric, chart or table is built.
C6_FilterExactAscendingOrNotice ==
    call.fn = "evolution" =>
        LET course_data == call.result.course_data
            Matches(r) == /\ r.course_id = call.selected_course
                          /\ call.year_range[1] <= r.ano
                          /\ r.ano <= call.year_range[2]
            matching == {j \in 1..Len(df) : Matches(df[j])}
        IN /\ \A i \in 1..Len(course_data) : Matches(course_data[i]) /\ Contains(df, course_data[i])
           /\ \A j \in matching : Contains(course_data, df[j])
           /\ Len(course_data) = Cardinality(matching)
           /\ \A i \in 1..(Len(course_data) - 1) : course_data[i].ano <= course_data[i + 1].ano
           /\ matching = {} =>
                 /\ call.result.warning
                 /\ call.result.metrics = <<>>
                 /\ call.result.charts = <<>>
                 /\ call.result.table = <<>>

\* two rows of the course are kept and put in order, the last year included, a third row is left out
C6_Witness ==
    /\ call.fn = "evolution"
    /\ Len(df) = 3
    /\ Len(call.result.course_data) = 2
    /\ call.result.course_data[2].ano = call.year_range[2]
    /\ \E i, j \in 1..Len(df) : /\ i < j
                                /\ df[i] = call.result.course_data[2]
                                /\ df[j] = call.result.course_data[1]

\* C12: when rows match, the single-course view gives the mean of taxa_ocupacao
\* times 100 as a whole percentage, takes the last grade, the last placed count and
\* their year from the matching row of the greatest year, and gives the two
\* forecast metrics from the first prediction row of the course exactly when the
\* course has one; on the five years 2020-2024 of C1 with 15 placed predicted it
\* gives 60%, 14 placed in 2024 and 15 placed as forecast.
C12_MetricsOfFilteredSeries ==
    (call.fn = "evolution" /\ ~call.result.warning) =>
        LET m == call.result.metrics[1]
            Matches(r) == /\ r.course_id = call.selected_course
                          /\ call.year_range[1] <= r.ano
                          /\ r.ano <= call.year_range[2]
            matching == {j \in 1..Len(df) : Matches(df[j])}
            count == Cardinality(matching)
            taxa_sum == SumSeq(Column(Rows(df, Matches), LAMBDA r : r.taxa_ocupacao))
            greatest == df[CHOOSE j \in matching : \A k \in matching : df[k].ano <= df[j].ano]
            predicted == {i \in 1..Len(predictions) : predictions[i].course_id = call.selected_course}
        IN /\ Len(call.result.metrics) = 1
           /\ \E percent \in 0..100 :
                 /\ m.avg_occupancy = ToString(percent) \o "%"
                 /\ 2 * percent * 10 * count - 2 * taxa_sum \in (-10 * count)..(10 * count)
           /\ m.last_year = greatest.ano
           /\ m.last_placed = greatest.colocados
           /\ 2 * 10 * m.last_grade - 2 * greatest.nota_ultimo_colocado \in -10..10
           /\ predicted = {} <=> m.forecast = <<>>
           /\ predicted # {} =>
                 LET first == predictions[CHOOSE i \in predicted : \A k \in predicted : i <= k]
                 IN /\ Len(m.forecast) = 1
                    /\ m.forecast[1].placed = first.colocados_previsto
                    /\ 2 * 10 * m.forecast[1].grade - 2 * first.nota_ultimo_colocado_prevista \in -10..10
           /\ (/\ df = FiveYears
               /\ predictions = FiveYearsPrediction
               /\ call.selected_course = "C1"
               /\ call.year_range = <<2020, 2024>>) =>
                 /\ m.avg_occupancy = "60%"
                 /\ m.last_year = 2024
                 /\ m.last_placed = 14
                 /\ m.forecast[1].placed = 15

\* the view of C1 over 2020-2024 on the five years and their prediction
C12_Witness ==
    /\ call.fn = "evolution"
    /\ df = FiveYears
    /\ predictions = FiveYearsPrediction
    /\ call.selected_course = "C1"
    /\ call.year_range = <<2020, 2024>>
    /\ Len(call.result.course_data) = 5
    /\ call.result.metrics[1].avg_occupancy = "60%"
    /\ call.result.metrics[1].last_placed = 14
    /\ call.result.metrics[1].forecast = <<[grade |-> 142, placed |-> 15]>>

----------------------------------------------------------------------------
(* The comparison chart *)

HistoricalTrace(c) ==
    CHOOSE tr \in Range(call.data) : tr.kind = "historical" /\ tr.course = c

ForecastTraces(c) ==
    SelectSeq(call.data, LAMBDA tr : tr.kind = "forecast" /\ tr.course = c)

HasPrediction(c) == \E i \in 1..Len(predictions) : predictions[i].course_id = c

\* C7: for either column, a selected course with a prediction has exactly one
\* forecast segment, from (its greatest historical year, the value of that
\* year's row) to (2025, the predicted value of the column); a course without
\* a prediction has none.
C7_ForecastSegment ==
    call.fn = "chart" =>
        \A c \in Range(call.selected_courses) :
            LET segments == ForecastTraces(c)
                last_year == Max({df[j].ano : j \in {k \in 1..Len(df) : df[k].course_id = c}})
                last_row == CHOOSE r \in Range(df) : r.course_id = c /\ r.ano = last_year
                pred == CHOOSE r \in Range(predictions) : r.course_id = c
                predicted == IF call.y_column = "colocados"
                             THEN pred.colocados_previsto
                             ELSE pred.nota_ultimo_colocado_prevista
            IN IF HasPrediction(c)
               THEN /\ Len(segments) = 1
                    /\ segments[1].x = <<last_year, 2025>>
                    /\ segments[1].y = <<last_row[call.y_column], predicted>>
               ELSE segments = <<>>

\* a course whose latest row is not its last row in the table gets a segment, another course gets none
C7_Witness ==
    /\ call.fn = "chart"
    /\ Len(call.selected_courses) = 2
    /\ \E c, d \in Range(call.selected_courses) :
          /\ HasPrediction(c)
          /\ ~HasPrediction(d)
          /\ Len(ForecastTraces(c)) = 1
          /\ \E i, j \in 1..Len(df) : i < j /\ df[i].course_id = c /\ df[j].course_id = c
                                      /\ df[i].ano > df[j].ano

\* distinct selected courses are drawn in distinct colours while they are no more
\* than the palette
DistinctColors ==
    Len(call.selected_courses) <= Len(Set1) =>
        \A j, k \in 1..Len(call.selected_courses) :
            j # k => HistoricalTrace(call.selected_courses[j]).color
                        # HistoricalTrace(call.selected_courses[k]).color

----------------------------------------------------------------------------
(* The comparison summary *)

\* C9: every summary row of the forecast year carries the placeholder in the
\* occupancy and the remaining-slots fields, also when the table has rows of
\* that year for the selected courses.
C9_ForecastRowsArePlaceholders ==
    call.fn = "summary" =>
        \A i \in 1..Len(call.rows) :
            call.rows[i].Ano = 2025 =>
                /\ call.rows[i].Ocupacao = "Previsão"
                /\ call.rows[i].VagasRestantes.kind = "text"
                /\ call.rows[i].VagasRestantes.text = "Previsão"

\* a forecast row is emitted for a selected course that has a 2025 row in the table
C9_Witness ==
    /\ call.fn = "summary"
    /\ \E i \in 1..Len(call.rows) : call.rows[i].Ano = 2025
    /\ \E j \in 1..Len(df) : /\ df[j].ano = 2025
                             /\ Contains(call.selected_courses, df[j].course_id)
                             /\ HasPrediction(df[j].course_id)

\* C10: the rows of the summary follow the order of the requested years; the
\* forecast year gives one row for every selected course with a prediction and
\* none for the others, a historical year the rows of the table; years
\* [2025, 2023] with one course without prediction give the 2023 row alone.
C10_YearsInCallerOrder ==
    call.fn = "summary" =>
        LET rows == call.rows
            years == call.selected_years
            selected == call.selected_courses
            Pos(y) == CHOOSE k \in 1..Len(years) : years[k] = y
            Count(y) == Cardinality({i \in 1..Len(rows) : rows[i].Ano = y})
            with_prediction == {c \in Range(selected) : HasPrediction(c)}
            of_year(y) == {j \in 1..Len(df) : df[j].ano = y /\ Contains(selected, df[j].course_id)}
        IN /\ \A i \in 1..Len(rows) : rows[i].Ano \in Range(years)
           /\ \A i, j \in 1..Len(rows) : i < j => Pos(rows[i].Ano) <= Pos(rows[j].Ano)
           /\ \A y \in Range(years) :
                 Count(y) = IF y = 2025 THEN Cardinality(with_prediction)
                            ELSE Cardinality(of_year(y))
           /\ (years = <<2025, 2023>> /\ Len(selected) = 1 /\ with_prediction = {}
               /\ of_year(2023) # {}) =>
                 /\ Len(rows) = 1
                 /\ rows[1].Ano = 2023
                 /\ rows[1].VagasRestantes = NumberCell(df[CHOOSE j \in of_year(2023) : TRUE].vagas_sobrantes)

\* years [2025, 2023], both with rows: the forecast row of the course comes before its 2023 row
C10_Witness ==
    /\ call.fn = "summary"
    /\ call.selected_years = <<2025, 2023>>
    /\ Len(call.rows) = 2
    /\ call.rows[1].Ano = 2025
    /\ call.rows[2].Ano = 2023

----------------------------------------------------------------------------
(* The course options *)

\* C13: for the selected university and faculty, the course options are exactly
\* the course_ids with a row of that university and that faculty, each once,
\* shown under the curso of its first such row and ordered by that name
\* ascending; when no row matches, the list is empty, no course is selected, the
\* single-course view is not built and the add button is not offered.
C13_CourseOptionsOfPair ==
    call.fn = "selection" =>
        LET Matches(r) == /\ r.nome_universidade = call.widgets.university
                          /\ r.nome_faculdade = call.widgets.faculty
            matching == {j \in 1..Len(df) : Matches(df[j])}
            ids == {df[j].course_id : j \in matching}
            FirstRow(c) == df[CHOOSE j \in matching :
                                /\ df[j].course_id = c
                                /\ \A k \in matching : df[k].course_id = c => j <= k]
        IN /\ Range(call.options) = ids
           /\ Len(call.options) = Cardinality(ids)
           /\ Len(call.labels) = Len(call.options)
           /\ \A i \in 1..Len(call.options) : call.labels[i] = FirstRow(call.options[i]).curso
           /\ \A i \in 1..(Len(call.labels) - 1) : Rank(call.labels[i]) <= Rank(call.labels[i + 1])
           /\ call.widgets.course \in ids \cup {None}
           /\ matching = {} =>
                 /\ call.options = <<>>
                 /\ call.widgets.course = None
                 /\ ~call.page.evolution.built
                 /\ ~call.page.add_offered
           /\ matching # {} =>
                 /\ call.widgets.course \in ids
                 /\ call.page.evolution.built

\* two courses are offered in the order of their names, against the order of the
\* table; the first has a later row under another name and the table has a row
\* of the university with no faculty
C13_Witness ==
    /\ call.fn = "selection"
    /\ Len(call.options) = 2
    /\ Len(df) = 3
    /\ df[1].course_id = call.options[2]
    /\ df[2].course_id = call.options[1]
    /\ df[3].course_id = call.options[1]
    /\ df[3].curso # call.labels[1]
    /\ call.page.evolution.built

----------------------------------------------------------------------------
(* A failed load *)

\* C11: when either file is missing, load_data gives (None, None) with an
\* error on the page and every run stops there: no selectbox is resolved, the
\* comparison list is neither initialised nor changed, and no view is built.
C11_FailedLoadStopsRun ==
    (pc # "start" /\ ~(files.cleaned_data /\ files.predictions_2025)) =>
        /\ load_data(files, df, predictions).none
        /\ view.error
        /\ ~view.resolved
        /\ ~session_state.has_selected
        /\ selected_courses = <<>>
        /\ view.shown = <<>>
        /\ ~view.add_offered
        /\ ~view.evolution.built
        /\ view.comparison = "none"
        /\ pc = "idle"

\* a second run after a failed load, on a table that has default courses and
\* with only the prediction file missing
C11_Witness ==
    /\ files.cleaned_data
    /\ ~files.predictions_2025
    /\ pc = "idle"
    /\ last.op = "refresh"
    /\ view.error
    /\ DefaultCourses(df) # <<>>

----------------------------------------------------------------------------
(* The courses of the comparison list and the table *)

\* C14: every course_id of the comparison list has a row in the historical
\* table, and so has every course_id a run has listed or handed to the
\* comparison view, so df[df['course_id'] == course].iloc[0] has a row to take;
\* a run that ends with an empty list builds no comparison view and shows the
\* prompt to select courses.
C14_SelectedCoursesHaveRows ==
    /\ \A i \in 1..Len(selected_courses) : \E j \in 1..Len(df) : df[j].course_id = selected_courses[i]
    /\ \A i \in 1..Len(view.shown) : \E j \in 1..Len(df) : df[j].course_id = view.shown[i]
    /\ \A i \in 1..Len(view.compared) : \E j \in 1..Len(df) : df[j].course_id = view.compared[i]
    /\ view.comparison = "view" => (view.compared # <<>> /\ view.compared = selected_courses)
    /\ (pc = "idle" /\ selected_courses = <<>>) => (view.comparison = "info" /\ view.compared = <<>>)

\* a course that is not a default has been added to the defaults and is compared
\* with them
C14_Witness ==
    /\ pc = "idle"
    /\ last.op = "add"
    /\ Len(selected_courses) = 3
    /\ selected_courses[3] = last.arg
    /\ ~Contains(DefaultCourses(df), last.arg)
    /\ view.comparison = "view"
    /\ view.compared = selected_courses

====
